---- MODULE Spec2Model ----
(***************************************************************************)
(* Model of GuidesManager (map/guides_manager.cpp): the guides-on-map      *)
(* controller, its request pipeline against the asynchronous catalog API,  *)
(* the viewport-change policy, the mark projection and the selection       *)
(* handling.  All callbacks run on one thread, so every public operation   *)
(* and every reply callback is one atomic action.                          *)
(*                                                                         *)
(* The controller's fields are gathered in a record (Cur) so that the      *)
(* private methods (Clear, ChangeState, RequestGuides, UpdateGuidesMarks,  *)
(* UpdateActiveGuide) are operators from record to record, composed in the *)
(* order in which the code calls them.                                     *)
(*                                                                         *)
(* Not modelled: m_nextMarkIndex (an unbounded counter that only numbers   *)
(* the marks), OnClusterSelected (acts on the map engine only) and         *)
(* Invalidate (empty).  Listeners are recorded when invoked (fired) and do *)
(* not call back into the controller.                                      *)
(*                                                                         *)
(* Three specifications: Spec, the request pipeline with every operation   *)
(* but those of the gallery; SpecGallery, one reply with any guide list,   *)
(* the gallery listener, taps and GetGallery; SpecLive, the pipeline when  *)
(* the public calls stop and every request is replied to.                  *)
(***************************************************************************)
EXTENDS Integers, Sequences, FiniteSets

VARIABLES
  m_state,              \* GuidesState
  m_screen,             \* ScreenBase recorded by UpdateViewport
  m_zoom,               \* int, 0 until a viewport is recorded
  m_guides,             \* guides_on_map::GuidesOnMap, the last reply
  m_errorRequestsCount, \* failures counted by the failure callback
  m_requestCounter,     \* number of the most recently dispatched request
  m_activeGuide,        \* std::string, "" when none
  m_shownGuides,        \* set of ids rendered as single-guide marks
  m_onStateChanged,     \* TRUE when a state listener is registered
  m_onGalleryChanged,   \* TRUE when a gallery listener is registered
  clusterMarks,         \* mark sink, group GUIDE_CLUSTER
  guideMarks,           \* mark sink, group GUIDE
  selectionMarks,       \* mark sink, group GUIDE_SELECTION
  inflight,             \* requests handed to the API, reply not yet delivered
  fired,                \* listener invocations made by the last step, in order
  lastOp,               \* history: the operation or reply of the last step
  failRun,              \* history: failure replies since the run started, -1 no run
  lastFailLatest,       \* history: the last counted failure was of the newest request
  requested,            \* history: the viewport sent with the newest request
  gallery,              \* the value returned by the last GetGallery call
  quiet                 \* environment: "no" while public operations are called

vars == <<m_state, m_screen, m_zoom, m_guides, m_errorRequestsCount,
          m_requestCounter, m_activeGuide, m_shownGuides, m_onStateChanged,
          m_onGalleryChanged, clusterMarks, guideMarks, selectionMarks,
          inflight, fired, lastOp, failRun, lastFailLatest,
          requested, gallery, quiet>>

(***************************************************************************)
(* Bounds and constants                                                    *)
(***************************************************************************)
\* Requests dispatched in one behaviour.
MaxRequests == 4
\* Records in one reply, where the records are enumerated.
MaxGuides == 2

kRequestAttemptsCount == 3

\* kScaleEps = 0.1115, in ten-thousandths.
kScaleEpsE4 == 1115

\* Score threshold 0.8 of UpdateViewport, as the fraction 4/5.
ScoreNum == 4
ScoreDen == 5

Disabled == "Disabled"
Enabled == "Enabled"
HasData == "HasData"
NoData == "NoData"
NetworkError == "NetworkError"
FatalNetworkError == "FatalNetworkError"

GuidesState == {Disabled, Enabled, HasData, NoData, NetworkError, FatalNetworkError}

(***************************************************************************)
(* Viewports.  A screen has a centre, a pixel half-size and a scale; its   *)
(* global rectangle is the pixel rectangle scaled around the centre.       *)
(***************************************************************************)
Scr(cx, cy, hw, hh, scale) ==
  [cx |-> cx, cy |-> cy, hw |-> hw, hh |-> hh, scale |-> scale]

\* The screen of a default-constructed ScreenBase: non-empty, never requested.
DefaultScreen == Scr(0, 0, 3, 2, 1)

ScrA == Scr(0, 0, 1, 1, 100)
\* ScrA zoomed out by 10%.
ScrB == Scr(0, 0, 1, 1, 110)
\* ScrA panned far away.
ScrD == Scr(500, 0, 1, 1, 100)
\* A screen whose pixel rectangle is not yet sized.
ScrE == Scr(900, 0, 0, 0, 100)

Screens == {ScrA, ScrB, ScrD, ScrE}

GlobalRect(sc) ==
  [minX |-> sc.cx - sc.hw * sc.scale, maxX |-> sc.cx + sc.hw * sc.scale,
   minY |-> sc.cy - sc.hh * sc.scale, maxY |-> sc.cy + sc.hh * sc.scale]

IsEmptyInterior(r) == r.minX >= r.maxX \/ r.minY >= r.maxY

Max(a, b) == IF a >= b THEN a ELSE b
Min(a, b) == IF a <= b THEN a ELSE b
Abs(a) == IF a >= 0 THEN a ELSE 0 - a

Area(r) == IF IsEmptyInterior(r) THEN 0 ELSE (r.maxX - r.minX) * (r.maxY - r.minY)

Intersection(a, b) ==
  [minX |-> Max(a.minX, b.minX), maxX |-> Min(a.maxX, b.maxX),
   minY |-> Max(a.minY, b.minY), maxY |-> Min(a.maxY, b.maxY)]

\* score > 0.8, the score being intersection area over the smaller area.
ScoreAboveThreshold(a, b) ==
  LET small == Min(Area(a), Area(b))
  IN  /\ small > 0
      /\ ScoreDen * Area(Intersection(a, b)) > ScoreNum * small

\* fabs(old.scale - new.scale) / old.scale > kScaleEps; a zero old scale
\* divides to +inf (or NaN for 0/0, which compares false).
ScaleStronglyChanged(old, new) ==
  Abs(old.scale - new.scale) * 10000 > kScaleEpsE4 * old.scale

\* df::GetDrawTileScale: the discrete tile-scale level of a screen.
GetDrawTileScale(sc) == Max(1, 4 - (sc.scale \div 100))

(***************************************************************************)
(* Catalog replies                                                         *)
(***************************************************************************)
Guide(id, sights, outdoor, point) ==
  [id |-> id, sights |-> sights, outdoor |-> outdoor, point |-> point]

Replies ==
  { <<>>,
    <<Guide("", 2, 1, 2), Guide("g2", 0, 1, 3)>> }

\* Ids passed to SetActiveGuide: "g2" is in the catalog's reply, "g1" is not.
GuideIds == {"g1", "g2"}

\* BookmarkCatalog::HasDownloaded
DownloadedGuides == {"g1"}
IsGuideDownloaded(id) == id \in DownloadedGuides

(***************************************************************************)
(* The controller as a record                                              *)
(***************************************************************************)
Cur ==
  [state |-> m_state, screen |-> m_screen, zoom |-> m_zoom, guides |-> m_guides,
   errorRequestsCount |-> m_errorRequestsCount,
   requestCounter |-> m_requestCounter, activeGuide |-> m_activeGuide,
   shownGuides |-> m_shownGuides, onStateChanged |-> m_onStateChanged,
   onGalleryChanged |-> m_onGalleryChanged, clusterMarks |-> clusterMarks,
   guideMarks |-> guideMarks, selectionMarks |-> selectionMarks,
   inflight |-> inflight, fired |-> <<>>]

Commit(s) ==
  /\ m_state' = s.state
  /\ m_screen' = s.screen
  /\ m_zoom' = s.zoom
  /\ m_guides' = s.guides
  /\ m_errorRequestsCount' = s.errorRequestsCount
  /\ m_requestCounter' = s.requestCounter
  /\ m_activeGuide' = s.activeGuide
  /\ m_shownGuides' = s.shownGuides
  /\ m_onStateChanged' = s.onStateChanged
  /\ m_onGalleryChanged' = s.onGalleryChanged
  /\ clusterMarks' = s.clusterMarks
  /\ guideMarks' = s.guideMarks
  /\ selectionMarks' = s.selectionMarks
  /\ inflight' = s.inflight
  /\ fired' = s.fired

\* What a state listener can observe when it is invoked.
Snapshot(s) ==
  [guides |-> s.guides, activeGuide |-> s.activeGuide,
   shownGuides |-> s.shownGuides, clusterMarks |-> s.clusterMarks,
   guideMarks |-> s.guideMarks, selectionMarks |-> s.selectionMarks]

StateEvent(s, st) == [kind |-> "state", arg |-> st, seen |-> Snapshot(s)]
GalleryEvent(s, reload) == [kind |-> "gallery", arg |-> reload, seen |-> Snapshot(s)]

(***************************************************************************)
(* Private methods                                                         *)
(***************************************************************************)
\* Variant of IsRequestParamsInitialized that asks for a non-empty interior.
IsRequestParamsInitializedNonEmpty(s) ==
  ~IsEmptyInterior(GlobalRect(s.screen)) \/ s.zoom # 0

IsRequestParamsInitialized(s) ==
  IsEmptyInterior(GlobalRect(s.screen)) \/ s.zoom # 0

\* Variant of ChangeState that calls the listener without comparing states.
ChangeStateAlwaysNotifies(s, newState) ==
  LET t == [s EXCEPT !.state = newState]
  IN  IF t.onStateChanged
      THEN [t EXCEPT !.fired = Append(@, StateEvent(t, newState))]
      ELSE t

ChangeState(s, newState) ==
  IF s.state = newState
  THEN s
  ELSE LET t == [s EXCEPT !.state = newState]
       IN  IF t.onStateChanged
           THEN [t EXCEPT !.fired = Append(@, StateEvent(t, newState))]
           ELSE t

\* The request handed to m_api.GetGuidesOnMap, known by the request number its
\* failure callback captures (the callbacks read neither rectangle nor zoom).
\* History: whether the state was Disabled at dispatch, and whether
\* SetEnabled(false) was called since.
Request(s, requestNumber) ==
  [n |-> requestNumber, atDisabled |-> s.state = Disabled, old |-> FALSE]

RequestGuides(s) ==
  IF ~IsRequestParamsInitialized(s)
  THEN s
  ELSE LET requestNumber == s.requestCounter + 1
       IN  [s EXCEPT !.requestCounter = requestNumber,
                     !.inflight = @ \cup {Request(s, requestNumber)}]

\* Variant of UpdateActiveGuide that keeps the active id when no mark has it.
UpdateActiveGuideKeepsId(s) ==
  LET IsActive(mark) == mark.id = s.activeGuide
      found == SelectSeq(s.guideMarks, IsActive)
  IN  IF found # <<>>
      THEN [s EXCEPT !.selectionMarks = <<[pivot |-> found[1].pivot]>>]
      ELSE [s EXCEPT !.selectionMarks = <<>>]

UpdateActiveGuide(s) ==
  LET IsActive(mark) == mark.id = s.activeGuide
      found == SelectSeq(s.guideMarks, IsActive)
  IN  IF found # <<>>
      THEN [s EXCEPT !.selectionMarks = <<[pivot |-> found[1].pivot]>>]
      ELSE [s EXCEPT !.selectionMarks = <<>>, !.activeGuide = ""]

IsCluster(guide) == guide.sights + guide.outdoor > 1

ClusterMark(guide) ==
  [sights |-> guide.sights, outdoor |-> guide.outdoor, pivot |-> guide.point]

GuideMark(guide) ==
  [id |-> guide.id, type |-> IF guide.sights > 0 THEN "City" ELSE "Outdoor",
   downloaded |-> IsGuideDownloaded(guide.id), pivot |-> guide.point]

UpdateGuidesMarks(s) ==
  LET IsSingle(guide) == ~IsCluster(guide)
      clusters == SelectSeq(s.guides, IsCluster)
      singles == SelectSeq(s.guides, IsSingle)
  IN  UpdateActiveGuide(
        [s EXCEPT !.clusterMarks = [i \in DOMAIN clusters |-> ClusterMark(clusters[i])],
                  !.guideMarks = [i \in DOMAIN singles |-> GuideMark(singles[i])],
                  !.shownGuides = @ \cup {singles[i].id : i \in DOMAIN singles}])

\* Variant of Clear that leaves the error counter alone.
ClearKeepsErrorCount(s) ==
  UpdateGuidesMarks([s EXCEPT !.activeGuide = "", !.guides = <<>>])

Clear(s) ==
  UpdateGuidesMarks([s EXCEPT !.activeGuide = "", !.guides = <<>>,
                              !.errorRequestsCount = 0])

\* Variant of the success callback without the Disabled check.
OnSuccessCallbackUnchecked(s, guides) ==
  LET s1 == [s EXCEPT !.guides = guides, !.errorRequestsCount = 0]
      s2 == ChangeState(s1, IF s1.guides # <<>> THEN HasData ELSE NoData)
      s3 == UpdateGuidesMarks(s2)
  IN  IF s3.onGalleryChanged
      THEN [s3 EXCEPT !.fired = Append(@, GalleryEvent(s3, TRUE))]
      ELSE s3

\* Variant of the success callback that picks the state from the list it
\* is about to replace.
OnSuccessCallbackStaleCheck(s, guides) ==
  IF s.state = Disabled
  THEN s
  ELSE LET s1 == [s EXCEPT !.guides = guides, !.errorRequestsCount = 0]
           s2 == ChangeState(s1, IF s.guides # <<>> THEN HasData ELSE NoData)
           s3 == UpdateGuidesMarks(s2)
       IN  IF s3.onGalleryChanged
           THEN [s3 EXCEPT !.fired = Append(@, GalleryEvent(s3, TRUE))]
           ELSE s3

\* The success callback of RequestGuides.
OnSuccessCallback(s, guides) ==
  IF s.state = Disabled
  THEN s
  ELSE LET s1 == [s EXCEPT !.guides = guides, !.errorRequestsCount = 0]
           s2 == ChangeState(s1, IF s1.guides # <<>> THEN HasData ELSE NoData)
           s3 == UpdateGuidesMarks(s2)
       IN  IF s3.onGalleryChanged
           THEN [s3 EXCEPT !.fired = Append(@, GalleryEvent(s3, TRUE))]
           ELSE s3

\* Variant of the failure callback that never re-requests.
OnFailureCallbackNoRetry(s, requestNumber) ==
  IF s.state = Disabled \/ s.state = FatalNetworkError
  THEN s
  ELSE LET s1 == [s EXCEPT !.errorRequestsCount = @ + 1]
       IN  IF s1.errorRequestsCount >= kRequestAttemptsCount
           THEN ChangeState(Clear(s1), FatalNetworkError)
           ELSE ChangeState(s1, NetworkError)

\* Variant of the failure callback that re-requests whatever its number.
OnFailureCallbackAlwaysRetries(s, requestNumber) ==
  IF s.state = Disabled \/ s.state = FatalNetworkError
  THEN s
  ELSE LET s1 == [s EXCEPT !.errorRequestsCount = @ + 1]
           s2 == IF s1.errorRequestsCount >= kRequestAttemptsCount
                 THEN ChangeState(Clear(s1), FatalNetworkError)
                 ELSE ChangeState(s1, NetworkError)
       IN  RequestGuides(s2)

\* Variant of the failure callback without the budget: it never gives up.
OnFailureCallbackNoBudget(s, requestNumber) ==
  IF s.state = Disabled \/ s.state = FatalNetworkError
  THEN s
  ELSE LET s2 == ChangeState(s, NetworkError)
       IN  IF requestNumber = s2.requestCounter
           THEN RequestGuides(s2)
           ELSE s2

\* Variant of the failure callback with > for >= in the budget test.
OnFailureCallbackOffByOne(s, requestNumber) ==
  IF s.state = Disabled \/ s.state = FatalNetworkError
  THEN s
  ELSE LET s1 == [s EXCEPT !.errorRequestsCount = @ + 1]
           s2 == IF s1.errorRequestsCount > kRequestAttemptsCount
                 THEN ChangeState(Clear(s1), FatalNetworkError)
                 ELSE ChangeState(s1, NetworkError)
       IN  IF requestNumber = s2.requestCounter
           THEN RequestGuides(s2)
           ELSE s2

\* The failure callback of RequestGuides, with its captured request number.
OnFailureCallback(s, requestNumber) ==
  IF s.state = Disabled \/ s.state = FatalNetworkError
  THEN s
  ELSE LET s1 == [s EXCEPT !.errorRequestsCount = @ + 1]
           s2 == IF s1.errorRequestsCount >= kRequestAttemptsCount
                 THEN ChangeState(Clear(s1), FatalNetworkError)
                 ELSE ChangeState(s1, NetworkError)
       IN  IF requestNumber = s2.requestCounter
           THEN RequestGuides(s2)
           ELSE s2

(***************************************************************************)
(* Public operations, as functions of the controller record                *)
(***************************************************************************)
\* Variant of UpdateViewport with the score comparison inverted.
DoUpdateViewportInverted(s, screen) ==
  LET zoom == GetDrawTileScale(screen)
      recorded == [s EXCEPT !.screen = screen, !.zoom = zoom]
  IN  IF s.state = Disabled \/ s.state = FatalNetworkError
      THEN recorded
      ELSE IF IsEmptyInterior(GlobalRect(screen))
      THEN s
      ELSE IF /\ IsRequestParamsInitialized(s)
              /\ ~ScaleStronglyChanged(s.screen, screen)
              /\ ~ScoreAboveThreshold(GlobalRect(s.screen), GlobalRect(screen))
      THEN s
      ELSE RequestGuides(recorded)

\* Variant of UpdateViewport whose first test omits Disabled.
DoUpdateViewportUngated(s, screen) ==
  LET zoom == GetDrawTileScale(screen)
      recorded == [s EXCEPT !.screen = screen, !.zoom = zoom]
  IN  IF s.state = FatalNetworkError
      THEN recorded
      ELSE IF IsEmptyInterior(GlobalRect(screen))
      THEN s
      ELSE IF /\ IsRequestParamsInitialized(s)
              /\ ~ScaleStronglyChanged(s.screen, screen)
              /\ ScoreAboveThreshold(GlobalRect(s.screen), GlobalRect(screen))
      THEN s
      ELSE RequestGuides(recorded)

DoUpdateViewport(s, screen) ==
  LET zoom == GetDrawTileScale(screen)
      recorded == [s EXCEPT !.screen = screen, !.zoom = zoom]
  IN  IF s.state = Disabled \/ s.state = FatalNetworkError
      THEN recorded
      ELSE IF IsEmptyInterior(GlobalRect(screen))
      THEN s
      ELSE IF /\ IsRequestParamsInitialized(s)
              /\ ~ScaleStronglyChanged(s.screen, screen)
              /\ ScoreAboveThreshold(GlobalRect(s.screen), GlobalRect(screen))
      THEN s
      ELSE RequestGuides(recorded)

DoReconnect(s) ==
  IF s.state # FatalNetworkError
  THEN s
  ELSE RequestGuides(ChangeState(s, Enabled))

DoSetEnabled(s, enabled) ==
  LET newState == IF enabled THEN Enabled ELSE Disabled
  IN  IF newState = s.state
      THEN s
      ELSE LET s1 == ChangeState(Clear(s), newState)
               s2 == [s1 EXCEPT !.shownGuides = {}]
           IN  IF ~enabled THEN s2 ELSE RequestGuides(s2)

\* Variant of SetActiveGuide that stores the id without looking for its mark.
DoSetActiveGuideStoresOnly(s, guideId) ==
  IF s.activeGuide = guideId
  THEN s
  ELSE [s EXCEPT !.activeGuide = guideId]

DoSetActiveGuide(s, guideId) ==
  IF s.activeGuide = guideId
  THEN s
  ELSE UpdateActiveGuide([s EXCEPT !.activeGuide = guideId])

DoOnGuideSelected(s, mark) ==
  LET s1 == [s EXCEPT !.selectionMarks = <<[pivot |-> mark.pivot]>>,
                      !.activeGuide = mark.id]
  IN  IF s1.onGalleryChanged
      THEN [s1 EXCEPT !.fired = Append(@, GalleryEvent(s1, FALSE))]
      ELSE s1

DoSetStateListener(s, onStateChanged) ==
  LET s1 == [s EXCEPT !.onStateChanged = onStateChanged]
  IN  IF s1.onStateChanged
      THEN [s1 EXCEPT !.fired = Append(@, StateEvent(s1, s1.state))]
      ELSE s1

DoSetGalleryListener(s, onGalleryChanged) ==
  [s EXCEPT !.onGalleryChanged = onGalleryChanged]

\* One item of the gallery.  The url is kept as its two varying parts: the
\* guide id of the path and the UTM term, the size of the shown set.
GalleryItem(s, guide) ==
  [guideId |-> guide.id,
   url |-> [id |-> guide.id, term |-> Cardinality(s.shownGuides)],
   downloaded |-> IsGuideDownloaded(guide.id),
   type |-> IF guide.sights = 1 THEN "City" ELSE "Outdoor"]

\* GetGallery is const: it returns the items and leaves the controller alone.
GetGallery(s) ==
  LET Listed(guide) == ~(guide.outdoor + guide.sights # 1)
      listed == SelectSeq(s.guides, Listed)
  IN  [i \in DOMAIN listed |-> GalleryItem(s, listed[i])]

(***************************************************************************)
(* Initial state: the controller as constructed                            *)
(***************************************************************************)
\* The argument of a call without one.
NoArg == [none |-> TRUE]

\* The last step: the operation, its argument (a record), whether it
\* dispatched a request, and, for UpdateViewport, whether it directly followed
\* an UpdateViewport that dispatched one.
Op(name, arg, s) ==
  [op |-> name, arg |-> arg, dispatched |-> s.requestCounter # m_requestCounter,
   afterUV |-> /\ name = "UpdateViewport"
               /\ lastOp.op = "UpdateViewport"
               /\ lastOp.dispatched]

\* The viewport handed to GetGuidesOnMap by the newest request dispatched
\* since SetEnabled last changed the state; sent is FALSE when there is none.
NoViewport == [sent |-> FALSE, screen |-> DefaultScreen, zoom |-> 0]

Sent(s, enabling) ==
  requested' = IF s.requestCounter # m_requestCounter
               THEN [sent |-> TRUE, screen |-> s.screen, zoom |-> s.zoom]
               ELSE IF enabling THEN NoViewport ELSE requested

\* GetGallery and the end of the public calls are no part of these steps.
Apart == UNCHANGED <<gallery, quiet>>

Init ==
  /\ m_state = Disabled
  /\ m_screen = DefaultScreen
  /\ m_zoom = 0
  /\ m_guides = <<>>
  /\ m_errorRequestsCount = 0
  /\ m_requestCounter = 0
  /\ m_activeGuide = ""
  /\ m_shownGuides = {}
  /\ m_onStateChanged = FALSE
  /\ m_onGalleryChanged = FALSE
  /\ clusterMarks = <<>>
  /\ guideMarks = <<>>
  /\ selectionMarks = <<>>
  /\ inflight = {}
  /\ fired = <<>>
  /\ lastOp = [op |-> "none", arg |-> NoArg, dispatched |-> FALSE, afterUV |-> FALSE]
  /\ failRun = -1
  /\ lastFailLatest = FALSE
  /\ requested = NoViewport
  /\ gallery = <<>>
  /\ quiet = "no"

(***************************************************************************)
(* Actions.  Each is one call of a public operation or the delivery of one *)
(* reply; a step that would dispatch more than MaxRequests requests is not *)
(* taken.                                                                  *)
(***************************************************************************)
WithinBounds(s) == s.requestCounter <= MaxRequests

\* lastFailLatest is kept only while the state is NetworkError.
KeepFailLatest(s) ==
  lastFailLatest' = (lastFailLatest /\ s.state = NetworkError)

UpdateViewport(screen) ==
  LET s == DoUpdateViewport(Cur, screen)
  IN  /\ WithinBounds(s)
      /\ Commit(s)
      /\ lastOp' = Op("UpdateViewport", screen, s)
      /\ KeepFailLatest(s)
      /\ UNCHANGED failRun
      /\ Sent(s, FALSE)
      /\ Apart

Reconnect ==
  LET s == DoReconnect(Cur)
  IN  /\ WithinBounds(s)
      /\ Commit(s)
      /\ lastOp' = Op("Reconnect", NoArg, s)
      /\ KeepFailLatest(s)
      /\ failRun' = IF m_state = FatalNetworkError THEN 0 ELSE failRun
      /\ Sent(s, FALSE)
      /\ Apart

SetEnabled(enabled) ==
  LET marked == IF enabled
                THEN inflight
                ELSE {[r EXCEPT !.old = TRUE] : r \in inflight}
      s == DoSetEnabled([Cur EXCEPT !.inflight = marked], enabled)
  IN  /\ WithinBounds(s)
      /\ Commit(s)
      /\ lastOp' = Op("SetEnabled", [enabled |-> enabled], s)
      /\ KeepFailLatest(s)
      /\ failRun' = IF s.state = m_state THEN failRun
                    ELSE IF enabled THEN 0 ELSE -1
      /\ Sent(s, s.state # m_state)
      /\ Apart

SetActiveGuide(guideId) ==
  LET s == DoSetActiveGuide(Cur, guideId)
  IN  /\ Commit(s)
      /\ lastOp' = Op("SetActiveGuide", [guideId |-> guideId], s)
      /\ KeepFailLatest(s)
      /\ UNCHANGED failRun
      /\ Sent(s, FALSE)
      /\ Apart

\* The user taps a single-guide mark that is on the map.
OnGuideSelected(i) ==
  LET s == DoOnGuideSelected(Cur, guideMarks[i])
  IN  /\ Commit(s)
      /\ lastOp' = Op("OnGuideSelected", [guideId |-> guideMarks[i].id], s)
      /\ KeepFailLatest(s)
      /\ UNCHANGED failRun
      /\ Sent(s, FALSE)
      /\ Apart

SetStateListener(onStateChanged) ==
  LET s == DoSetStateListener(Cur, onStateChanged)
  IN  /\ Commit(s)
      /\ lastOp' = Op("SetStateListener", [listener |-> onStateChanged], s)
      /\ KeepFailLatest(s)
      /\ UNCHANGED failRun
      /\ Sent(s, FALSE)
      /\ Apart

SetGalleryListener(onGalleryChanged) ==
  LET s == DoSetGalleryListener(Cur, onGalleryChanged)
  IN  /\ Commit(s)
      /\ lastOp' = Op("SetGalleryListener", [listener |-> onGalleryChanged], s)
      /\ KeepFailLatest(s)
      /\ UNCHANGED failRun
      /\ Sent(s, FALSE)
      /\ Apart

\* The API delivers the success reply of request r.
ReplySuccess(r, guides) ==
  LET s == OnSuccessCallback([Cur EXCEPT !.inflight = @ \ {r}], guides)
  IN  /\ Commit(s)
      /\ lastOp' = Op("ReplySuccess", r, s)
      /\ KeepFailLatest(s)
      /\ failRun' = IF m_state = Disabled THEN failRun ELSE 0
      /\ Sent(s, FALSE)
      /\ Apart

\* The API delivers the failure reply of request r.
ReplyFailure(r) ==
  LET s == OnFailureCallback([Cur EXCEPT !.inflight = @ \ {r}], r.n)
      counted == m_state # Disabled /\ m_state # FatalNetworkError
  IN  /\ WithinBounds(s)
      /\ Commit(s)
      /\ lastOp' = Op("ReplyFailure", r, s)
      /\ lastFailLatest' = IF counted
                           THEN s.state = NetworkError /\ r.n = m_requestCounter
                           ELSE lastFailLatest /\ s.state = NetworkError
      /\ failRun' = IF failRun >= 0 THEN failRun + 1 ELSE failRun
      /\ Sent(s, FALSE)
      /\ Apart

Next ==
  \/ \E screen \in Screens : UpdateViewport(screen)
  \/ Reconnect
  \/ \E enabled \in BOOLEAN : SetEnabled(enabled)
  \/ \E guideId \in GuideIds \cup {""} : SetActiveGuide(guideId)
  \/ \E i \in DOMAIN guideMarks : OnGuideSelected(i)
  \/ \E fn \in BOOLEAN : SetStateListener(fn)
  \/ \E r \in inflight, guides \in Replies : ReplySuccess(r, guides)
  \/ \E r \in inflight : ReplyFailure(r)

Spec == Init /\ [][Next]_vars

(***************************************************************************)
(* The gallery.  The controller is enabled with viewport ScrA and request  *)
(* 1 is in flight; the catalog replies with any list of at most MaxGuides  *)
(* records, each with 0 or 1 sights and 0 or 1 outdoor guides; the         *)
(* application registers its gallery listener, the user taps marks and the *)
(* gallery is read.  The gallery listener is registered here only: it      *)
(* changes nothing in the controller but its own field.                    *)
(***************************************************************************)
GalleryRecords ==
  { Guide(id, sights, outdoor, 1) :
      id \in GuideIds, sights \in 0..1, outdoor \in 0..1 }

GalleryInputs ==
  UNION { [1..n -> GalleryRecords] : n \in 0..MaxGuides }

\* The state after UpdateViewport(ScrA) and SetEnabled(true).
InitGallery ==
  /\ m_state = Enabled
  /\ m_screen = ScrA
  /\ m_zoom = GetDrawTileScale(ScrA)
  /\ m_guides = <<>>
  /\ m_errorRequestsCount = 0
  /\ m_requestCounter = 1
  /\ m_activeGuide = ""
  /\ m_shownGuides = {}
  /\ m_onStateChanged = FALSE
  /\ m_onGalleryChanged = FALSE
  /\ clusterMarks = <<>>
  /\ guideMarks = <<>>
  /\ selectionMarks = <<>>
  /\ inflight = {[n |-> 1, atDisabled |-> FALSE, old |-> FALSE]}
  /\ fired = <<>>
  /\ lastOp = [op |-> "SetEnabled", arg |-> [enabled |-> TRUE],
               dispatched |-> TRUE, afterUV |-> FALSE]
  /\ failRun = 0
  /\ lastFailLatest = FALSE
  /\ requested = [sent |-> TRUE, screen |-> ScrA, zoom |-> GetDrawTileScale(ScrA)]
  /\ gallery = <<>>
  /\ quiet = "no"

GetGalleryCall ==
  /\ gallery' = GetGallery(Cur)
  /\ Commit([Cur EXCEPT !.fired = fired])
  /\ lastOp' = Op("GetGallery", NoArg, Cur)
  /\ UNCHANGED <<failRun, lastFailLatest, requested, quiet>>

NextGallery ==
  \/ \E r \in inflight, guides \in GalleryInputs : ReplySuccess(r, guides)
  \/ \E fn \in BOOLEAN : SetGalleryListener(fn)
  \/ \E i \in DOMAIN guideMarks : OnGuideSelected(i)
  \/ GetGalleryCall

SpecGallery == InitGallery /\ [][NextGallery]_vars

(***************************************************************************)
(* The end of the public calls.  From some point the application calls no  *)
(* public operation and the API only delivers the replies of the requests  *)
(* in flight: any reply ("anyReply") or, the worst case, only failures     *)
(* ("allFail").  The calls end only where MaxRequests leaves room for the  *)
(* requests the replies can still cause (kRequestAttemptsCount for each    *)
(* request in flight), so that no reply is held back by the bound.  Every  *)
(* request in flight is replied to: the delivery of replies is weakly fair.*)
(***************************************************************************)
QuietModes == {"anyReply", "allFail"}

GoQuiet(mode) ==
  /\ quiet = "no"
  /\ m_requestCounter + kRequestAttemptsCount * Cardinality(inflight) <= MaxRequests
  /\ quiet' = mode
  /\ Commit([Cur EXCEPT !.fired = fired])
  /\ UNCHANGED <<lastOp, failRun, lastFailLatest, requested, gallery>>

Deliver ==
  \/ quiet = "anyReply" /\ \E r \in inflight, guides \in Replies : ReplySuccess(r, guides)
  \/ quiet \in QuietModes /\ \E r \in inflight : ReplyFailure(r)

NextLive ==
  \/ quiet = "no" /\ \E screen \in Screens : UpdateViewport(screen)
  \/ quiet = "no" /\ Reconnect
  \/ quiet = "no" /\ \E enabled \in BOOLEAN : SetEnabled(enabled)
  \/ quiet = "no" /\ \E r \in inflight, guides \in Replies : ReplySuccess(r, guides)
  \/ quiet = "no" /\ \E r \in inflight : ReplyFailure(r)
  \/ \E mode \in QuietModes : GoQuiet(mode)
  \/ Deliver

SpecLive == Init /\ [][NextLive]_vars /\ WF_inflight(Deliver)

TypeOK ==
  /\ m_state \in GuidesState
  /\ m_zoom \in 0..4
  /\ m_errorRequestsCount \in 0..kRequestAttemptsCount
  /\ m_requestCounter \in 0..MaxRequests
  /\ m_activeGuide \in GuideIds \cup {""}
  /\ m_shownGuides \subseteq GuideIds
  /\ \A r \in inflight : r.n \in 1..m_requestCounter

(***************************************************************************)
(* Properties                                                              *)
(***************************************************************************)
Numbers(requests) == {r.n : r \in requests}

IsReply(op) == op.op = "ReplySuccess" \/ op.op = "ReplyFailure"

marks == <<clusterMarks, guideMarks, selectionMarks>>

\* C1: handling the 3rd consecutive failure clears the guide list and makes
\* the state FatalNetworkError, and no step that ends in FatalNetworkError
\* (the failure handler that enters it, any later reply, UpdateViewport)
\* dispatches a catalog request.
C1_FatalCeasesRequests ==
  [][ /\ (lastOp'.op = "ReplyFailure" /\ failRun = 2 /\ failRun' = 3)
           => (m_guides' = <<>> /\ m_state' = FatalNetworkError)
      /\ m_state' = FatalNetworkError
           => (m_requestCounter' = m_requestCounter
               /\ Numbers(inflight') \subseteq Numbers(inflight)) ]_vars

\* C2: a reply delivered while the state is Disabled or FatalNetworkError
\* changes neither state, guide list, marks, error counter nor request
\* counter, and fires no listener.
C2_RepliesDiscarded ==
  [][ (/\ IsReply(lastOp')
       /\ m_state \in {Disabled, FatalNetworkError})
        => (/\ UNCHANGED <<m_state, m_guides, marks, m_errorRequestsCount,
                           m_requestCounter>>
            /\ fired' = <<>>) ]_vars

\* C3 as stated: in NetworkError at least one request is in flight.
C3_NetworkErrorRetryPending ==
  m_state = NetworkError => inflight # {}

\* C3 amended: in NetworkError the most recently dispatched request is in
\* flight, provided the failure counted last was that of the then newest
\* request (a failure of a superseded request issues no retry).
C3_RetryPendingAfterNewestFailure ==
  (m_state = NetworkError /\ lastFailLatest)
    => m_requestCounter \in Numbers(inflight)

C3_Witness ==
  /\ m_state = NetworkError
  /\ lastFailLatest
  /\ lastOp.op = "ReplyFailure"
  /\ lastOp.dispatched
  /\ m_errorRequestsCount = 2

\* C4: k failure replies after the start of a run (the feature enabled, a
\* reconnect, or a success reply; error counter 0) leave the state
\* NetworkError for k = 1, 2 and FatalNetworkError for k >= 3.
C4_RetryBudget ==
  /\ failRun \in {1, 2} => m_state = NetworkError
  /\ failRun >= 3 => m_state = FatalNetworkError

C4_Witness ==
  /\ failRun = 4
  /\ m_state = FatalNetworkError
  /\ lastOp.op = "ReplyFailure"

\* C5 as stated: the reply of a request that was in flight when
\* SetEnabled(false) was called is discarded whenever it arrives.
C5_OldRepliesDiscarded ==
  [][ (IsReply(lastOp') /\ lastOp'.arg.old)
        => UNCHANGED <<m_state, m_guides, marks, m_errorRequestsCount,
                       m_requestCounter>> ]_vars

\* C5 amended: such a reply is discarded when it arrives while the state is
\* Disabled.
C5_OldRepliesDiscardedWhileDisabled ==
  [][ (IsReply(lastOp') /\ lastOp'.arg.old /\ m_state = Disabled)
        => UNCHANGED <<m_state, m_guides, marks, m_errorRequestsCount,
                       m_requestCounter>> ]_vars

C5_Witness ==
  /\ IsReply(lastOp)
  /\ lastOp.arg.old
  /\ m_state = Disabled
  /\ m_zoom # 0

\* C6: a step other than SetEnabled(false) never shrinks the shown-guides
\* set.
C6_ShownGuidesMonotone ==
  [][ ~(lastOp'.op = "SetEnabled" /\ lastOp'.arg.enabled = FALSE)
        => m_shownGuides \subseteq m_shownGuides' ]_vars

\* The viewports of the coalescing claim: the scale of b differs from that
\* of a by at most 10% and their overlap score exceeds 0.8.
C7_Similar(a, b) ==
  /\ Abs(a.scale - b.scale) * 10 <= a.scale
  /\ ScoreAboveThreshold(GlobalRect(a), GlobalRect(b))

\* C7: when UpdateViewport(A) recorded A and dispatched a request in a
\* state other than Disabled and FatalNetworkError, a directly following
\* UpdateViewport(B) with B similar to A dispatches nothing and leaves the
\* recorded viewport and zoom those of A.
C7_Coalescing ==
  [][ (/\ lastOp.op = "UpdateViewport"
       /\ lastOp.dispatched
       /\ m_screen = lastOp.arg
       /\ m_state \notin {Disabled, FatalNetworkError}
       /\ lastOp'.op = "UpdateViewport"
       /\ C7_Similar(lastOp.arg, lastOp'.arg))
        => (/\ m_requestCounter' = m_requestCounter
            /\ inflight' = inflight
            /\ m_screen' = lastOp.arg
            /\ m_zoom' = GetDrawTileScale(lastOp.arg)) ]_vars

C7_Witness ==
  /\ lastOp.op = "UpdateViewport"
  /\ lastOp.afterUV
  /\ ~lastOp.dispatched
  /\ m_state \notin {Disabled, FatalNetworkError}
  /\ m_screen # lastOp.arg
  /\ C7_Similar(m_screen, lastOp.arg)
  /\ m_requestCounter \in Numbers(inflight)

\* C8: HasData implies a non-empty guide list, NoData an empty one.
C8_StateEmptiness ==
  /\ m_state = HasData => Len(m_guides) >= 1
  /\ m_state = NoData => Len(m_guides) = 0

C8_Witness ==
  /\ m_state = HasData
  /\ Len(m_guides) >= 1
  /\ lastOp.op = "ReplySuccess"
  /\ m_requestCounter >= 2

\* C9: in Disabled the guide list and the active guide id are empty and the
\* mark sink holds no cluster, single-guide or selection mark.
C9_DisabledIsEmpty ==
  m_state = Disabled
    => /\ m_guides = <<>>
       /\ m_activeGuide = ""
       /\ clusterMarks = <<>>
       /\ guideMarks = <<>>
       /\ selectionMarks = <<>>

C9_Witness ==
  /\ m_state = Disabled
  /\ lastOp.op = "ReplySuccess"
  /\ lastOp.arg.old
  /\ inflight = {}

\* C10: every request is dispatched at a moment when the state is not
\* Disabled, no step that starts and ends in Disabled dispatches one, and
\* UpdateViewport called in Disabled only records the viewport and zoom.
C10_NoRequestWhileDisabled ==
  [][ /\ \A r \in inflight' : r.n \notin Numbers(inflight) => ~r.atDisabled
      /\ (m_state = Disabled /\ m_state' = Disabled)
           => (m_requestCounter' = m_requestCounter
               /\ Numbers(inflight') \subseteq Numbers(inflight))
      /\ (lastOp'.op = "UpdateViewport" /\ m_state = Disabled)
           => (/\ m_screen' = lastOp'.arg
               /\ m_zoom' = GetDrawTileScale(lastOp'.arg)
               /\ UNCHANGED <<m_state, m_guides, m_errorRequestsCount,
                              m_requestCounter, m_activeGuide, m_shownGuides,
                              marks, inflight>>) ]_vars

C10_Witness ==
  /\ m_state = Disabled
  /\ lastOp.op = "UpdateViewport"
  /\ m_screen = lastOp.arg
  /\ m_requestCounter >= 1

\* C11: SetEnabled(true) changes the state only from Disabled (to Enabled,
\* with one request when the request parameters are initialized); called in
\* HasData, NoData, NetworkError or FatalNetworkError it leaves the state
\* and the guide list unchanged and dispatches nothing.
C11_SetEnabledTrueOnlyFromDisabled ==
  [][ (lastOp'.op = "SetEnabled" /\ lastOp'.arg.enabled = TRUE)
        => /\ m_state = Disabled
             => (/\ m_state' = Enabled
                 /\ m_requestCounter' = m_requestCounter
                      + (IF IsRequestParamsInitialized(Cur) THEN 1 ELSE 0))
           /\ m_state \in {HasData, NoData, NetworkError, FatalNetworkError}
             => (/\ UNCHANGED <<m_state, m_guides, m_requestCounter>>
                 /\ Numbers(inflight') = Numbers(inflight)) ]_vars

\* C12: GetGallery returns, in the order of the guide list, exactly one item
\* for each record rendered as a single-guide mark (sights + outdoor not
\* above one) and none for a cluster, and it changes no controller state.
C12_IsSingle(guide) == guide.sights + guide.outdoor <= 1

C12_GalleryListsSingles ==
  [][ lastOp'.op = "GetGallery"
        => /\ LET singles == SelectSeq(m_guides, C12_IsSingle)
              IN  /\ [i \in DOMAIN gallery' |-> gallery'[i].guideId]
                       = [i \in DOMAIN singles |-> singles[i].id]
                  /\ [i \in DOMAIN gallery' |-> gallery'[i].guideId]
                       = [i \in DOMAIN guideMarks |-> guideMarks[i].id]
           /\ UNCHANGED <<m_state, m_screen, m_zoom, m_guides, m_errorRequestsCount,
                          m_requestCounter, m_activeGuide, m_shownGuides,
                          m_onStateChanged, m_onGalleryChanged, marks, inflight>> ]_vars

\* C13: when SetActiveGuide(id) has returned, also by its early return for
\* the id that is already active, there is exactly one selection mark if a
\* single-guide mark with that id is on the map, and otherwise there is no
\* selection mark and the active id is empty.
C13_SelectionAfterSetActiveGuide ==
  lastOp.op = "SetActiveGuide"
    => IF \E i \in DOMAIN guideMarks : guideMarks[i].id = lastOp.arg.guideId
       THEN Len(selectionMarks) = 1 /\ m_activeGuide = lastOp.arg.guideId
       ELSE selectionMarks = <<>> /\ m_activeGuide = ""

\* SetActiveGuide("g2") has returned while the mark of g2 is on the map.
C13_Witness ==
  /\ lastOp.op = "SetActiveGuide"
  /\ lastOp.arg.guideId = "g2"
  /\ m_activeGuide = "g2"
  /\ Len(selectionMarks) = 1
  /\ \E i \in DOMAIN guideMarks : guideMarks[i].id = "g2"

\* C14: a registered state listener is invoked exactly once, with the new
\* state, by a step that changes the state, and not at all by a step that
\* leaves the state the same; SetStateListener with a listener invokes it
\* exactly once, at once, with the current state.
C14_StateEvents(events) ==
  LET IsState(e) == e.kind = "state"
      found == SelectSeq(events, IsState)
  IN  [i \in DOMAIN found |-> found[i].arg]

C14_ListenerOncePerChange ==
  [][ m_onStateChanged'
        => C14_StateEvents(fired') =
             IF lastOp'.op = "SetStateListener" THEN <<m_state>>
             ELSE IF m_state' # m_state THEN <<m_state'>>
             ELSE <<>> ]_vars

\* A failure reply has changed the state to FatalNetworkError and the
\* listener has been told so, once.
C14_Witness ==
  /\ m_onStateChanged
  /\ lastOp.op = "ReplyFailure"
  /\ m_state = FatalNetworkError
  /\ C14_StateEvents(fired) = <<FatalNetworkError>>

\* C15 as stated: in every reachable state, a state of FatalNetworkError
\* implies that the error counter is at least the retry budget of 3.
C15_FatalHasFullCounter ==
  m_state = FatalNetworkError => m_errorRequestsCount >= kRequestAttemptsCount

\* C15: in every reachable state of FatalNetworkError at least 3 failure
\* replies have arrived since the run of requests began, and the error
\* counter, which the failure handler's Clear() reset on entering the state,
\* is 0.
C15_FatalAfterBudgetCounterReset ==
  m_state = FatalNetworkError
    => failRun >= kRequestAttemptsCount /\ m_errorRequestsCount = 0

\* The 3rd failure has just made the state FatalNetworkError.
C15_Witness ==
  /\ m_state = FatalNetworkError
  /\ lastOp.op = "ReplyFailure"
  /\ failRun = kRequestAttemptsCount

\* C16: a failure reply dispatches a new request only if it is the reply of
\* the request whose number is the current request counter; the failure of
\* a superseded request (a smaller number) dispatches nothing, so only the
\* newest request in flight can cause a retry.
C16_OnlyNewestFailureRetries ==
  [][ lastOp'.op = "ReplyFailure"
        => /\ lastOp'.dispatched
             => (/\ lastOp'.arg.n = m_requestCounter
                 /\ m_requestCounter' = m_requestCounter + 1
                 /\ Numbers(inflight') = (Numbers(inflight) \ {lastOp'.arg.n})
                                           \cup {m_requestCounter'})
           /\ lastOp'.arg.n < m_requestCounter
             => (/\ m_requestCounter' = m_requestCounter
                 /\ Numbers(inflight') = Numbers(inflight) \ {lastOp'.arg.n}) ]_vars

\* The failure of a superseded request has been counted (the state is
\* NetworkError) and has dispatched nothing, while a newer request is in flight.
C16_Witness ==
  /\ lastOp.op = "ReplyFailure"
  /\ lastOp.arg.n < m_requestCounter
  /\ ~lastOp.dispatched
  /\ m_state = NetworkError
  /\ m_errorRequestsCount > 0
  /\ m_requestCounter \in Numbers(inflight)

\* C17: in every reachable state that is neither Disabled nor
\* FatalNetworkError and in which a request has been dispatched since the
\* feature was last enabled, the stored viewport is the viewport that was
\* sent with the most recently dispatched request.
C17_StoredViewportIsRequested ==
  (m_state # Disabled /\ m_state # FatalNetworkError /\ requested.sent)
    => m_screen = requested.screen /\ m_zoom = requested.zoom

\* C18 as stated: RequestGuides dispatches a request (and increments the request
\* counter) exactly when the stored rectangle has a non-empty interior or the
\* stored zoom is not 0; with an empty interior and zoom 0 it dispatches
\* nothing.  Stated for the steps that are certain to call RequestGuides:
\* SetEnabled(true) that changes the state, Reconnect in FatalNetworkError,
\* a counted failure of the newest request, and an UpdateViewport that
\* records a new viewport in an active state.
C18_CallsRequestGuides ==
  \/ lastOp'.op = "SetEnabled" /\ lastOp'.arg.enabled = TRUE /\ m_state # Enabled
  \/ lastOp'.op = "Reconnect" /\ m_state = FatalNetworkError
  \/ /\ lastOp'.op = "ReplyFailure"
     /\ m_state # Disabled /\ m_state # FatalNetworkError
     /\ lastOp'.arg.n = m_requestCounter
  \/ /\ lastOp'.op = "UpdateViewport"
     /\ m_state # Disabled /\ m_state # FatalNetworkError
     /\ m_screen' # m_screen

C19_ListenerSeesFinalState ==
  [][ \A i \in DOMAIN fired' :
        fired'[i].kind = "state"
          => /\ lastOp'.op = "SetEnabled"
               => (/\ fired'[i].seen.guides = <<>>
                   /\ fired'[i].seen.activeGuide = ""
                   /\ fired'[i].seen.shownGuides = {})
             /\ lastOp'.op = "ReplySuccess"
               => (/\ fired'[i].seen.guides = m_guides'
                   /\ fired'[i].seen.clusterMarks = clusterMarks'
                   /\ fired'[i].seen.guideMarks = guideMarks') ]_vars

\* C20: once no public operation is called any more and every request in
\* flight gets its reply, success or failure, eventually no request is in
\* flight and none is dispatched again: every chain of retries ends, also
\* when every reply is a failure.
C20_RetriesEnd ==
  (quiet \in QuietModes) ~> [](inflight = {})

\* The calls ended with request 1 in flight, every reply was a failure, and
\* the chain has ended: the failure of request 4 was discarded in
\* FatalNetworkError.
C20_Witness ==
  /\ quiet = "allFail"
  /\ inflight = {}
  /\ m_state = FatalNetworkError
  /\ lastOp.op = "ReplyFailure"
  /\ lastOp.arg.n = kRequestAttemptsCount + 1
  /\ failRun = kRequestAttemptsCount + 1

====
